---------------------------- MODULE Spec2Model ----------------------------
(***************************************************************************)
(* Model of bastion/utils/generate_token.py: the TokenGenerator class      *)
(* (key check, encrypt_token, the four descriptor builders) and the        *)
(* command-line entry point main.                                          *)
(*                                                                         *)
(* Python values are modelled as tagged records:                           *)
(*   str  -> [t |-> "str",  s |-> <<code points>>]                         *)
(*   int  -> [t |-> "int",  i |-> n]                                       *)
(*   bool -> [t |-> "bool", b |-> TRUE/FALSE]                              *)
(*   None -> [t |-> "none"]                                                *)
(*   dict -> [t |-> "dict", d |-> <<[k |-> code points, v |-> value]>>]    *)
(* bytes are sequences of 0..255, text is a sequence of code points.       *)
(***************************************************************************)
EXTENDS Integers, Sequences, FiniteSets, TLC

(***************************************************************************)
(* Text and bytes                                                          *)
(***************************************************************************)

\* The printable ASCII characters of code points 32..95 and 97..126, in order
\* (the grave accent, 96, cannot be written in a string literal here).
PrintableLow == " !\"#$%&'()*+,-./0123456789:;<=>?@ABCDEFGHIJKLMNOPQRSTUVWXYZ[\\]^_"
PrintableHigh == "abcdefghijklmnopqrstuvwxyz{|}~"

\* A sequence given by a function, with its elements computed.
Bytes(f) == SubSeq(f, 1, Len(f))

\* Position of the character c in the string p (0 when it is not in p).
Position(p, c) ==
  Cardinality({j \in 1..Len(p) : \E i \in j..Len(p) : SubSeq(p, i, i) = c})

\* Code point of a one-character string.
OrdTable ==
  [c \in {SubSeq(PrintableLow, i, i) : i \in 1..Len(PrintableLow)}
          \cup {SubSeq(PrintableHigh, i, i) : i \in 1..Len(PrintableHigh)} |->
     IF Position(PrintableLow, c) > 0 THEN 31 + Position(PrintableLow, c)
     ELSE 96 + Position(PrintableHigh, c)]
Ord(c) == OrdTable[c]

\* A string literal as the sequence of its code points (a Python str).
U(s) == Bytes([i \in 1..Len(s) |-> Ord(SubSeq(s, i, i))])

\* str.encode('utf-8'): one byte below U+0080, two below U+0800, three
\* below U+10000, four from there on; a surrogate (U+D800..U+DFFF) cannot
\* be encoded and makes encode raise UnicodeEncodeError.
IsSurrogate(c) == c >= 55296 /\ c <= 57343
Utf8Encodable(s) == \A i \in 1..Len(s) : ~IsSurrogate(s[i])
UnicodeEncodeError == "UnicodeEncodeError"
Utf8Char(c) ==
  IF c < 128 THEN <<c>>
  ELSE IF c < 2048 THEN <<192 + (c \div 64), 128 + (c % 64)>>
  ELSE IF c < 65536
  THEN <<224 + (c \div 4096), 128 + ((c \div 64) % 64), 128 + (c % 64)>>
  ELSE <<240 + (c \div 262144), 128 + ((c \div 4096) % 64),
         128 + ((c \div 64) % 64), 128 + (c % 64)>>
RECURSIVE Utf8Wide(_)
Utf8Wide(s) ==
  IF s = <<>> THEN <<>>
  ELSE IF Len(s) = 1 THEN Utf8Char(Head(s))
  ELSE LET h == Len(s) \div 2 IN
       Utf8Wide(SubSeq(s, 1, h)) \o Utf8Wide(SubSeq(s, h + 1, Len(s)))
Utf8Encode(s) ==
  IF ~Utf8Encodable(s) THEN UnicodeEncodeError
  ELSE IF \A i \in 1..Len(s) : s[i] < 128 THEN s
  ELSE Utf8Wide(s)

\* bytes.decode('utf-8') of pure-ASCII bytes (base64 output is ASCII).
AsciiDecode(b) == b

\* Exclusive or of two bytes, bit by bit, tabulated.
Bit(a, k) == (a \div (2 ^ k)) % 2
XorBits(a, b) ==
    ((Bit(a, 0) + Bit(b, 0)) % 2)
  + ((Bit(a, 1) + Bit(b, 1)) % 2) * 2
  + ((Bit(a, 2) + Bit(b, 2)) % 2) * 4
  + ((Bit(a, 3) + Bit(b, 3)) % 2) * 8
  + ((Bit(a, 4) + Bit(b, 4)) % 2) * 16
  + ((Bit(a, 5) + Bit(b, 5)) % 2) * 32
  + ((Bit(a, 6) + Bit(b, 6)) % 2) * 64
  + ((Bit(a, 7) + Bit(b, 7)) % 2) * 128
XorTable ==
  SubSeq([a \in 1..256 |-> SubSeq([b \in 1..256 |-> XorBits(a - 1, b - 1)], 1, 256)], 1, 256)
XorByte(a, b) == XorTable[a + 1][b + 1]
XorBlock(x, y) == [i \in 1..Len(x) |-> XorByte(x[i], y[i])]

(***************************************************************************)
(* base64.b64encode / b64decode (standard alphabet, '=' padding)           *)
(***************************************************************************)

B64Alphabet == U("ABCDEFGHIJKLMNOPQRSTUVWXYZabcdefghijklmnopqrstuvwxyz0123456789+/")
B64Pad == Ord("=")

\* base64.b64encode(b): every 3 bytes become 4 characters; a final group of
\* 1 or 2 bytes is zero-filled and completed with '='.
b64encode(b) ==
  LET n == Len(b)
      at(i) == IF i <= n THEN b[i] ELSE 0
      grp(g) == at(3 * g + 1) * 65536 + at(3 * g + 2) * 256 + at(3 * g + 3)
  IN Bytes([j \in 1..(4 * ((n + 2) \div 3)) |->
        LET g == (j - 1) \div 4
            p == (j - 1) % 4
        IN IF (p = 2 /\ 3 * g + 2 > n) \/ (p = 3 /\ 3 * g + 3 > n)
           THEN B64Pad
           ELSE B64Alphabet[((grp(g) \div (64 ^ (3 - p))) % 64) + 1]])

(***************************************************************************)
(* Python values                                                           *)
(***************************************************************************)

PyStr(s) == [t |-> "str", s |-> s]
PyInt(n) == [t |-> "int", i |-> n]
PyBool(b) == [t |-> "bool", b |-> b]
PyNone == [t |-> "none"]
PyDict(d) == [t |-> "dict", d |-> d]

\* Python truthiness of the values arguments take: None, '' and False are
\* false, 0 is false.
Truthy(v) ==
  CASE v.t = "none" -> FALSE
    [] v.t = "str" -> v.s # <<>>
    [] v.t = "bool" -> v.b
    [] v.t = "int" -> v.i # 0
    [] OTHER -> v.d # <<>>

\* len() of a str.
PyLen(v) == Len(v.s)

\* d[k] = v on a dict: replaces the value of an existing key in place,
\* appends a new key at the end (insertion order).
DictSet(dict, k, v) ==
  IF \E i \in 1..Len(dict.d) : dict.d[i].k = k
  THEN PyDict([i \in 1..Len(dict.d) |->
                 IF dict.d[i].k = k THEN [k |-> k, v |-> v] ELSE dict.d[i]])
  ELSE PyDict(Append(dict.d, [k |-> k, v |-> v]))

HasKey(dict, k) == \E i \in 1..Len(dict.d) : dict.d[i].k = k
DictGet(dict, k) == dict.d[CHOOSE i \in 1..Len(dict.d) : dict.d[i].k = k].v

\* dict.update(other): d[k] = v for each item of other, in order.
RECURSIVE DictUpdate(_, _)
DictUpdate(dict, items) ==
  IF items = <<>> THEN dict
  ELSE DictUpdate(DictSet(dict, Head(items).k, Head(items).v), Tail(items))

\* A dict display {k1: v1, k2: v2, ...}.
DictOf(items) == DictUpdate(PyDict(<<>>), items)
KV(k, v) == [k |-> U(k), v |-> v]

\* config['connection']['settings'][k] = v
SetSetting(config, k, v) ==
  LET conn == DictGet(config, U("connection"))
      settings == DictGet(conn, U("settings"))
  IN DictSet(config, U("connection"),
             DictSet(conn, U("settings"), DictSet(settings, U(k), v)))

Settings(config) == DictGet(DictGet(config, U("connection")), U("settings"))

(***************************************************************************)
(* json.dumps (default options: ensure_ascii, separators ', ' and ': ')    *)
(***************************************************************************)

HexDigits == U("0123456789abcdef")

\* \uXXXX with four lowercase hex digits.
JsonHex4(c) ==
  <<92, 117, HexDigits[((c \div 4096) % 16) + 1],
    HexDigits[((c \div 256) % 16) + 1],
    HexDigits[((c \div 16) % 16) + 1], HexDigits[(c % 16) + 1]>>

\* One character of a JSON string: '"' and '\' get a backslash; newline,
\* carriage return, tab, backspace and form feed are \n, \r, \t, \b and \f;
\* anything else outside ' '..'~' is \uXXXX, a character above U+FFFF as
\* the two \uXXXX of its surrogate pair.
JsonEscapeChar(c) ==
  CASE c = 34 -> <<92, 34>>
    [] c = 92 -> <<92, 92>>
    [] c = 10 -> <<92, 110>>
    [] c = 13 -> <<92, 114>>
    [] c = 9 -> <<92, 116>>
    [] c = 8 -> <<92, 98>>
    [] c = 12 -> <<92, 102>>
    [] c >= 32 /\ c <= 126 -> <<c>>
    [] c >= 65536 -> JsonHex4(55296 + ((c - 65536) \div 1024))
                       \o JsonHex4(56320 + ((c - 65536) % 1024))
    [] OTHER -> JsonHex4(c)

RECURSIVE JsonEscape(_)
JsonEscape(s) ==
  IF s = <<>> THEN <<>> ELSE JsonEscapeChar(Head(s)) \o JsonEscape(Tail(s))

JsonString_mutant_noescape(s) == <<34>> \o s \o <<34>>

\* A JSON string literal: the escaped characters between double quotes.
JsonString(s) ==
  IF \A i \in 1..Len(s) : s[i] >= 32 /\ s[i] <= 126 /\ s[i] # 34 /\ s[i] # 92
  THEN <<34>> \o s \o <<34>>
  ELSE <<34>> \o JsonEscape(s) \o <<34>>

RECURSIVE NatDigits(_)
NatDigits(n) ==
  IF n < 10 THEN <<48 + n>> ELSE Append(NatDigits(n \div 10), 48 + (n % 10))
JsonInt(n) == IF n < 0 THEN <<45>> \o NatDigits(-n) ELSE NatDigits(n)

RECURSIVE json_dumps(_), JsonItems(_)
\* json.dumps(v): the JSON text of a value, as a str.
json_dumps(v) ==
  CASE v.t = "str" -> JsonString(v.s)
    [] v.t = "int" -> JsonInt(v.i)
    [] v.t = "bool" -> IF v.b THEN U("true") ELSE U("false")
    [] v.t = "none" -> U("null")
    [] OTHER -> <<123>> \o JsonItems(v.d) \o <<125>>
JsonItems(items) ==
  IF items = <<>> THEN <<>>
  ELSE JsonString(Head(items).k) \o <<58, 32>> \o json_dumps(Head(items).v)
       \o (IF Len(items) > 1 THEN <<44, 32>> \o JsonItems(Tail(items)) ELSE <<>>)

(***************************************************************************)
(* The cipher (cryptography.hazmat) as encrypt_token uses it               *)
(***************************************************************************)

BlockSize == 16

\* algorithms.AES(key) accepts keys of 128, 192 or 256 bits and raises
\* ValueError for any other size.
AESKeySizeOk(key) == Len(key) \in {16, 24, 32}

pkcs7_pad_mutant_noextra(data) ==
  LET n == (BlockSize - (Len(data) % BlockSize)) % BlockSize
  IN data \o [i \in 1..n |-> n]

\* padding.PKCS7(128).padder(): update(data) + finalize() appends
\* n = 16 - (len(data) mod 16) bytes, each of value n (a full block when
\* the length is already a multiple of 16).
pkcs7_pad(data) ==
  LET n == BlockSize - (Len(data) % BlockSize)
  IN data \o [i \in 1..n |-> n]

\* The AES block cipher (FIPS 197), as algorithms.AES computes it.
\* The substitution box, indexed by byte value + 1.
SBoxTable ==
  <<
     99, 124, 119, 123, 242, 107, 111, 197, 48, 1, 103, 43, 254, 215, 171, 118,
     202, 130, 201, 125, 250, 89, 71, 240, 173, 212, 162, 175, 156, 164, 114, 192,
     183, 253, 147, 38, 54, 63, 247, 204, 52, 165, 229, 241, 113, 216, 49, 21,
     4, 199, 35, 195, 24, 150, 5, 154, 7, 18, 128, 226, 235, 39, 178, 117,
     9, 131, 44, 26, 27, 110, 90, 160, 82, 59, 214, 179, 41, 227, 47, 132,
     83, 209, 0, 237, 32, 252, 177, 91, 106, 203, 190, 57, 74, 76, 88, 207,
     208, 239, 170, 251, 67, 77, 51, 133, 69, 249, 2, 127, 80, 60, 159, 168,
     81, 163, 64, 143, 146, 157, 56, 245, 188, 182, 218, 33, 16, 255, 243, 210,
     205, 12, 19, 236, 95, 151, 68, 23, 196, 167, 126, 61, 100, 93, 25, 115,
     96, 129, 79, 220, 34, 42, 144, 136, 70, 238, 184, 20, 222, 94, 11, 219,
     224, 50, 58, 10, 73, 6, 36, 92, 194, 211, 172, 98, 145, 149, 228, 121,
     231, 200, 55, 109, 141, 213, 78, 169, 108, 86, 244, 234, 101, 122, 174, 8,
     186, 120, 37, 46, 28, 166, 180, 198, 232, 221, 116, 31, 75, 189, 139, 138,
     112, 62, 181, 102, 72, 3, 246, 14, 97, 53, 87, 185, 134, 193, 29, 158,
     225, 248, 152, 17, 105, 217, 142, 148, 155, 30, 135, 233, 206, 85, 40, 223,
     140, 161, 137, 13, 191, 230, 66, 104, 65, 153, 45, 15, 176, 84, 187, 22
  >>
\* The inverse substitution box: InvSBoxTable[SBoxTable[x + 1] + 1] = x.
InvSBoxTable ==
  <<
     82, 9, 106, 213, 48, 54, 165, 56, 191, 64, 163, 158, 129, 243, 215, 251,
     124, 227, 57, 130, 155, 47, 255, 135, 52, 142, 67, 68, 196, 222, 233, 203,
     84, 123, 148, 50, 166, 194, 35, 61, 238, 76, 149, 11, 66, 250, 195, 78,
     8, 46, 161, 102, 40, 217, 36, 178, 118, 91, 162, 73, 109, 139, 209, 37,
     114, 248, 246, 100, 134, 104, 152, 22, 212, 164, 92, 204, 93, 101, 182, 146,
     108, 112, 72, 80, 253, 237, 185, 218, 94, 21, 70, 87, 167, 141, 157, 132,
     144, 216, 171, 0, 140, 188, 211, 10, 247, 228, 88, 5, 184, 179, 69, 6,
     208, 44, 30, 143, 202, 63, 15, 2, 193, 175, 189, 3, 1, 19, 138, 107,
     58, 145, 17, 65, 79, 103, 220, 234, 151, 242, 207, 206, 240, 180, 230, 115,
     150, 172, 116, 34, 231, 173, 53, 133, 226, 249, 55, 232, 28, 117, 223, 110,
     71, 241, 26, 113, 29, 41, 197, 137, 111, 183, 98, 14, 170, 24, 190, 27,
     252, 86, 62, 75, 198, 210, 121, 32, 154, 219, 192, 254, 120, 205, 90, 244,
     31, 221, 168, 51, 136, 7, 199, 49, 177, 18, 16, 89, 39, 128, 236, 95,
     96, 81, 127, 169, 25, 181, 74, 13, 45, 229, 122, 159, 147, 201, 156, 239,
     160, 224, 59, 77, 174, 42, 245, 176, 200, 235, 187, 60, 131, 83, 153, 97,
     23, 43, 4, 126, 186, 119, 214, 38, 225, 105, 20, 99, 85, 33, 12, 125
  >>

\* Multiplication by x in GF(2^8) modulo x^8 + x^4 + x^3 + x + 1, and the
\* multiples the column mixing and its inverse use.
XTimeTable == Bytes([a \in 1..256 |-> IF a - 1 < 128 THEN 2 * (a - 1) ELSE XorByte(2 * (a - 1) - 256, 27)])
XTime(a) == XTimeTable[a + 1]
Mul3Table == Bytes([a \in 1..256 |-> XorByte(XTime(a - 1), a - 1)])
Mul9Table == Bytes([a \in 1..256 |-> XorByte(XTime(XTime(XTime(a - 1))), a - 1)])
Mul11Table == Bytes([a \in 1..256 |-> XorByte(Mul9Table[a], XTime(a - 1))])
Mul13Table == Bytes([a \in 1..256 |-> XorByte(Mul9Table[a], XTime(XTime(a - 1)))])
Mul14Table == Bytes([a \in 1..256 |-> XorByte(XorByte(XTime(XTime(XTime(a - 1))), XTime(XTime(a - 1))), XTime(a - 1))])
Xor4(a, b, c, d) == XorByte(XorByte(a, b), XorByte(c, d))

\* The round constants of the key expansion.
Rcon == <<1, 2, 4, 8, 16, 32, 64, 128, 27, 54>>

\* Key expansion: the round keys as one sequence of 16 * (rounds + 1)
\* bytes, word after word; w holds the words made so far, nk is the key
\* length in words.
RECURSIVE ExpandKey(_, _)
ExpandKey(w, nk) ==
  LET i == Len(w) \div 4
  IN IF i >= 4 * (nk + 7) THEN w
     ELSE LET prev == SubSeq(w, 4 * i - 3, 4 * i)
              temp == IF i % nk = 0
                      THEN <<XorByte(SBoxTable[prev[2] + 1], Rcon[i \div nk]),
                             SBoxTable[prev[3] + 1], SBoxTable[prev[4] + 1], SBoxTable[prev[1] + 1]>>
                      ELSE IF nk > 6 /\ i % nk = 4
                      THEN <<SBoxTable[prev[1] + 1], SBoxTable[prev[2] + 1], SBoxTable[prev[3] + 1], SBoxTable[prev[4] + 1]>>
                      ELSE prev
              old == SubSeq(w, 4 * (i - nk) + 1, 4 * (i - nk) + 4)
          IN ExpandKey(w \o XorBlock(old, temp), nk)
KeySchedule(key) == ExpandKey(key, Len(key) \div 4)
RoundKey(rk, r) == SubSeq(rk, 16 * r + 1, 16 * r + 16)
Rounds(rk) == (Len(rk) \div 16) - 1

\* The state is 4 rows by 4 columns, byte i being row r = (i - 1) mod 4 of
\* column c = (i - 1) div 4.  ShiftRows takes byte i from row r of column
\* c + r, its inverse from column c - r; ColumnIndex[k + 1][i] is the
\* byte k rows below byte i in the same column.
ShiftIndex ==
  Bytes([i \in 1..16 |-> 4 * ((((i - 1) \div 4) + ((i - 1) % 4)) % 4) + ((i - 1) % 4) + 1])
InvShiftIndex ==
  Bytes([i \in 1..16 |-> 4 * ((((i - 1) \div 4) + 4 - ((i - 1) % 4)) % 4) + ((i - 1) % 4) + 1])
ColumnIndex ==
  Bytes([k \in 1..4 |->
     Bytes([i \in 1..16 |-> 4 * ((i - 1) \div 4) + ((((i - 1) % 4) + k - 1) % 4) + 1])])

\* SubBytes then ShiftRows.
SubShift(s) == Bytes([i \in 1..16 |-> SBoxTable[s[ShiftIndex[i]] + 1]])
\* MixColumns: every column is multiplied by the matrix (2 3 1 1).
MixColumns(t) ==
  Bytes([i \in 1..16 |->
     Xor4(XTimeTable[t[i] + 1], Mul3Table[t[ColumnIndex[2][i]] + 1],
          t[ColumnIndex[3][i]], t[ColumnIndex[4][i]])])
\* The cipher states after rounds 0..r of the encryption of blk: the key of
\* round 0 is added to the block; every round substitutes, shifts, mixes
\* (all but the last round) and adds its round key.
RECURSIVE EncryptStates(_, _, _)
EncryptStates(rk, blk, r) ==
  IF r = 0 THEN <<Bytes(XorBlock(blk, RoundKey(rk, 0)))>>
  ELSE LET done == EncryptStates(rk, blk, r - 1)
           t == SubShift(done[r])
       IN Append(done, Bytes(XorBlock(IF r = Rounds(rk) THEN t ELSE MixColumns(t),
                                      RoundKey(rk, r))))

\* E_key on one 16-byte block, rk being the key schedule of the key.
BlockEncrypt(rk, blk) == EncryptStates(rk, blk, Rounds(rk))[Rounds(rk) + 1]

\* modes.CBC(iv): ciphertext block i is E_key(plaintext block i XOR
\* ciphertext block i-1), the first block is chained to the IV.
RECURSIVE CBCBlocks(_, _, _)
CBCBlocks(rk, prev, data) ==
  IF data = <<>> THEN <<>>
  ELSE LET c == BlockEncrypt(rk, XorBlock(SubSeq(data, 1, BlockSize), prev))
       IN c \o CBCBlocks(rk, c, SubSeq(data, BlockSize + 1, Len(data)))

cbc_encrypt_mutant_static_iv(key, iv, data) ==
  CBCBlocks(KeySchedule(key), [i \in 1..BlockSize |-> 0], data)

\* encryptor.update(padded_data) + encryptor.finalize()
cbc_encrypt(key, iv, data) == CBCBlocks(KeySchedule(key), iv, data)

(***************************************************************************)
(* Descriptor builders (the bodies of generate_*_token up to the call of   *)
(* encrypt_token)                                                          *)
(***************************************************************************)

HISTORY_UUID == PyStr(U("${HISTORY_UUID}"))
SessionName == PyStr(U("session"))

rdp_config(hostname, username, password, width, height, enable_drive, enable_recording) ==
  LET base == DictOf(<<KV("connection", DictOf(<<
                KV("type", PyStr(U("rdp"))),
                KV("settings", DictOf(<<
                   KV("hostname", hostname),
                   KV("username", username),
                   KV("password", password),
                   KV("width", width),
                   KV("height", height),
                   KV("dpi", PyInt(96)),
                   KV("security", PyStr(U("any"))),
                   KV("ignore-cert", PyBool(TRUE)),
                   KV("enable-wallpaper", PyBool(FALSE))>>))>>))>>)
      drive == IF Truthy(enable_drive)
               THEN SetSetting(SetSetting(SetSetting(base,
                      "enable-drive", PyBool(TRUE)),
                      "drive-path", PyStr(U("/tmp/guac-drive"))),
                      "create-drive-path", PyBool(TRUE))
               ELSE base
  IN IF Truthy(enable_recording)
     THEN SetSetting(SetSetting(drive, "recording-path", HISTORY_UUID),
                     "recording-name", SessionName)
     ELSE drive

ssh_credentials_mutant_keyfirst(base, password, private_key) ==
  IF Truthy(private_key) THEN SetSetting(base, "private-key", private_key)
  ELSE IF Truthy(password) THEN SetSetting(base, "password", password)
  ELSE base

\* if password: ... elif private_key: ...
ssh_credentials(base, password, private_key) ==
  IF Truthy(password) THEN SetSetting(base, "password", password)
  ELSE IF Truthy(private_key) THEN SetSetting(base, "private-key", private_key)
  ELSE base

ssh_config(hostname, username, password, private_key, enable_sftp, enable_recording) ==
  LET base == DictOf(<<KV("connection", DictOf(<<
                KV("type", PyStr(U("ssh"))),
                KV("settings", DictOf(<<
                   KV("hostname", hostname),
                   KV("username", username),
                   KV("port", PyInt(22)),
                   KV("font-size", PyInt(12)),
                   KV("color-scheme", PyStr(U("gray-black"))),
                   KV("terminal-type", PyStr(U("xterm-256color")))>>))>>))>>)
      cred == ssh_credentials(base, password, private_key)
      sftp == IF Truthy(enable_sftp)
              THEN SetSetting(SetSetting(cred, "enable-sftp", PyBool(TRUE)),
                     "sftp-root-directory", PyStr(U("/home/") \o username.s))
              ELSE cred
  IN IF Truthy(enable_recording)
     THEN SetSetting(SetSetting(sftp, "typescript-path", HISTORY_UUID),
                     "typescript-name", SessionName)
     ELSE sftp

vnc_config(hostname, password, port, enable_recording) ==
  LET base == DictOf(<<KV("connection", DictOf(<<
                KV("type", PyStr(U("vnc"))),
                KV("settings", DictOf(<<
                   KV("hostname", hostname),
                   KV("port", port),
                   KV("color-depth", PyInt(24))>>))>>))>>)
      pw == IF Truthy(password) THEN SetSetting(base, "password", password)
            ELSE base
  IN IF Truthy(enable_recording)
     THEN SetSetting(SetSetting(pw, "recording-path", HISTORY_UUID),
                     "recording-name", SessionName)
     ELSE pw

join_config(connection_id, read_only) ==
  DictOf(<<KV("connection", DictOf(<<
     KV("join", connection_id),
     KV("settings", DictOf(<<KV("read-only", read_only)>>))>>))>>)

(***************************************************************************)
(* encrypt_token, statement by statement                                   *)
(***************************************************************************)

\* plaintext = json.dumps(connection_config)
enc_plaintext(connection_config) == json_dumps(connection_config)

\* padded_data = padder.update(plaintext.encode('utf-8')) + padder.finalize()
enc_padded_data(plaintext) == pkcs7_pad(Utf8Encode(plaintext))

\* ciphertext = encryptor.update(padded_data) + encryptor.finalize()
enc_ciphertext(key, iv, padded_data) == cbc_encrypt(key, iv, padded_data)

enc_token_data_mutant_extra(iv, ciphertext) ==
  DictOf(<<KV("iv", PyStr(AsciiDecode(b64encode(iv)))),
           KV("value", PyStr(AsciiDecode(b64encode(ciphertext)))),
           KV("mac", PyStr(<<>>))>>)

\* token_data = {'iv': b64encode(iv).decode(), 'value': b64encode(ciphertext).decode()}
enc_token_data(iv, ciphertext) ==
  DictOf(<<KV("iv", PyStr(AsciiDecode(b64encode(iv)))),
           KV("value", PyStr(AsciiDecode(b64encode(ciphertext))))>>)

\* token = base64.b64encode(json.dumps(token_data).encode('utf-8')).decode('utf-8')
enc_token(token_data) ==
  AsciiDecode(b64encode(Utf8Encode(json_dumps(token_data))))

\* The token encrypt_token returns for a descriptor, a key and the IV drawn.
encrypt_token_result(key, connection_config, iv) ==
  enc_token(enc_token_data(iv,
     enc_ciphertext(key, iv, enc_padded_data(enc_plaintext(connection_config)))))

(***************************************************************************)
(* Decrypt: the gateway-side inverse described by the specification        *)
(* (section 4.2); its code is not part of generate_token.py.               *)
(***************************************************************************)

DecodeError == [ok |-> FALSE]
Decoded(v) == [ok |-> TRUE, v |-> v]

\* The position (0..63) of each code point 0..127 in the base64 alphabet,
\* -1 when it is not a base64 character, indexed by code point + 1.
B64Rev ==
  Bytes([c \in 1..128 |->
           Cardinality({j \in 1..64 :
                          \E i \in j..64 : B64Alphabet[i] = c - 1}) - 1])

\* base64 decoding, strict: the length is a multiple of 4, '=' appears only
\* as the last one or two characters, every other character is in the
\* alphabet.
b64decode(s) ==
  LET n == Len(s)
      npad == IF n >= 2 /\ s[n] = B64Pad /\ s[n - 1] = B64Pad THEN 2
              ELSE IF n >= 1 /\ s[n] = B64Pad THEN 1 ELSE 0
      sx(i) == IF i > n - npad THEN 0 ELSE B64Rev[s[i] + 1]
      grp(g) == sx(4 * g + 1) * 262144 + sx(4 * g + 2) * 4096
                + sx(4 * g + 3) * 64 + sx(4 * g + 4)
  IN IF n % 4 # 0
        \/ \E i \in 1..(n - npad) : s[i] < 0 \/ s[i] > 127 \/ B64Rev[s[i] + 1] < 0
     THEN DecodeError
     ELSE Decoded(Bytes([j \in 1..(3 * (n \div 4) - npad) |->
            (grp((j - 1) \div 3) \div (256 ^ (2 - ((j - 1) % 3)))) % 256]))

At(txt, i) == IF i >= 1 /\ i <= Len(txt) THEN txt[i] ELSE -1

RECURSIVE SkipWs(_, _)
SkipWs(txt, i) ==
  IF At(txt, i) \in {32, 9, 10, 13} THEN SkipWs(txt, i + 1) ELSE i

\* Index of the quote closing the string whose opening quote is at pos,
\* 0 when the string is not closed.
RECURSIVE ScanString(_, _)
ScanString(txt, i) ==
  IF i > Len(txt) THEN 0
  ELSE IF txt[i] = 92 THEN ScanString(txt, i + 2)
  ELSE IF txt[i] = 34 THEN i
  ELSE ScanString(txt, i + 1)
StringEnd(txt, pos) ==
  IF \E j \in (pos + 1)..Len(txt) : txt[j] = 34
  THEN LET q == CHOOSE j \in (pos + 1)..Len(txt) :
                   txt[j] = 34 /\ \A k \in (pos + 1)..(j - 1) : txt[k] # 34
       IN IF \A k \in (pos + 1)..(q - 1) : txt[k] # 92 THEN q
          ELSE ScanString(txt, pos + 1)
  ELSE 0

HexValue(c) ==
  IF c >= 48 /\ c <= 57 THEN c - 48
  ELSE IF c >= 97 /\ c <= 102 THEN c - 87
  ELSE IF c >= 65 /\ c <= 70 THEN c - 55
  ELSE -1

\* The characters of a JSON string body with the escapes undone; ok is
\* FALSE on an escape JSON does not define.
RECURSIVE JsonUnescape(_)
JsonUnescape(raw) ==
  IF raw = <<>> THEN Decoded(<<>>)
  ELSE IF Head(raw) # 92 THEN
    LET r == JsonUnescape(Tail(raw))
    IN IF r.ok /\ Head(raw) >= 32 THEN Decoded(<<Head(raw)>> \o r.v)
       ELSE DecodeError
  ELSE IF Len(raw) < 2 THEN DecodeError
  ELSE IF raw[2] = 117 THEN
    IF Len(raw) < 6 \/ \E k \in 3..6 : HexValue(raw[k]) < 0 THEN DecodeError
    ELSE LET hex4(p) == HexValue(raw[p]) * 4096 + HexValue(raw[p + 1]) * 256
                        + HexValue(raw[p + 2]) * 16 + HexValue(raw[p + 3])
             c == hex4(3)
             paired == /\ c >= 55296 /\ c <= 56319
                       /\ Len(raw) >= 12 /\ raw[7] = 92 /\ raw[8] = 117
                       /\ \A k \in 9..12 : HexValue(raw[k]) >= 0
                       /\ hex4(9) >= 56320 /\ hex4(9) <= 57343
             d == IF paired
                  THEN 65536 + (c - 55296) * 1024 + (hex4(9) - 56320)
                  ELSE c
             r == JsonUnescape(SubSeq(raw, IF paired THEN 13 ELSE 7, Len(raw)))
         IN IF r.ok THEN Decoded(<<d>> \o r.v) ELSE DecodeError
  ELSE LET c == CASE raw[2] = 34 -> 34 [] raw[2] = 92 -> 92
                  [] raw[2] = 47 -> 47 [] raw[2] = 110 -> 10
                  [] raw[2] = 114 -> 13 [] raw[2] = 116 -> 9
                  [] raw[2] = 98 -> 8 [] raw[2] = 102 -> 12
                  [] OTHER -> -1
           r == JsonUnescape(SubSeq(raw, 3, Len(raw)))
       IN IF c >= 0 /\ r.ok THEN Decoded(<<c>> \o r.v) ELSE DecodeError

\* A JSON string starting at pos: [ok, v (code points), pos (after it)].
ParseString(txt, pos) ==
  LET e == StringEnd(txt, pos) IN
  IF At(txt, pos) # 34 \/ e = 0 THEN [ok |-> FALSE, v |-> <<>>, pos |-> pos]
  ELSE LET raw == SubSeq(txt, pos + 1, e - 1)
           r == IF \A k \in 1..Len(raw) : raw[k] # 92 /\ raw[k] >= 32
                THEN Decoded(raw) ELSE JsonUnescape(raw)
       IN IF r.ok THEN [ok |-> TRUE, v |-> r.v, pos |-> e + 1]
          ELSE [ok |-> FALSE, v |-> <<>>, pos |-> pos]

RECURSIVE DigitsEnd(_, _), DigitsValue(_)
DigitsEnd(txt, i) ==
  IF At(txt, i) >= 48 /\ At(txt, i) <= 57 THEN DigitsEnd(txt, i + 1) ELSE i
DigitsValue(ds) ==
  IF ds = <<>> THEN 0
  ELSE DigitsValue(SubSeq(ds, 1, Len(ds) - 1)) * 10 + (ds[Len(ds)] - 48)

IsLiteral(txt, pos, lit) ==
  pos + Len(lit) - 1 <= Len(txt) /\ SubSeq(txt, pos, pos + Len(lit) - 1) = lit

ParseFail(pos) == [ok |-> FALSE, v |-> PyNone, pos |-> pos]
ParseOk(v, pos) == [ok |-> TRUE, v |-> v, pos |-> pos]

RECURSIVE ParseValue(_, _), ParseMembers(_, _, _)
\* A JSON value starting at pos (after optional white space):
\* [ok, v (the Python value), pos (after it)].
ParseValue(txt, pos0) ==
  LET pos == SkipWs(txt, pos0)
      c == At(txt, pos)
  IN CASE c = 34 ->
            LET r == ParseString(txt, pos)
            IN IF r.ok THEN ParseOk(PyStr(r.v), r.pos) ELSE ParseFail(pos)
       [] c = 123 ->
            LET p == SkipWs(txt, pos + 1)
            IN IF At(txt, p) = 125 THEN ParseOk(PyDict(<<>>), p + 1)
               ELSE ParseMembers(txt, p, PyDict(<<>>))
       [] c = 45 \/ (c >= 48 /\ c <= 57) ->
            LET start == IF c = 45 THEN pos + 1 ELSE pos
                e == DigitsEnd(txt, start)
                ds == SubSeq(txt, start, e - 1)
            IN IF e = start \/ (Len(ds) > 1 /\ ds[1] = 48) THEN ParseFail(pos)
               ELSE ParseOk(PyInt(IF c = 45 THEN -DigitsValue(ds)
                                  ELSE DigitsValue(ds)), e)
       [] IsLiteral(txt, pos, U("true")) -> ParseOk(PyBool(TRUE), pos + 4)
       [] IsLiteral(txt, pos, U("false")) -> ParseOk(PyBool(FALSE), pos + 5)
       [] IsLiteral(txt, pos, U("null")) -> ParseOk(PyNone, pos + 4)
       [] OTHER -> ParseFail(pos)
ParseMembers(txt, pos, acc) ==
  LET k == ParseString(txt, pos)
      colon == SkipWs(txt, k.pos)
      v == ParseValue(txt, colon + 1)
      nxt == SkipWs(txt, v.pos)
  IN IF ~k.ok \/ At(txt, colon) # 58 THEN ParseFail(pos)
     ELSE IF ~v.ok THEN ParseFail(pos)
     ELSE IF At(txt, nxt) = 125
          THEN ParseOk(DictSet(acc, k.v, v.v), nxt + 1)
     ELSE IF At(txt, nxt) = 44
          THEN ParseMembers(txt, SkipWs(txt, nxt + 1), DictSet(acc, k.v, v.v))
     ELSE ParseFail(pos)

\* Parse a whole JSON text: the value, with nothing but white space after.
json_loads(txt) ==
  LET r == ParseValue(txt, 1)
  IN IF r.ok /\ SkipWs(txt, r.pos) = Len(txt) + 1 THEN Decoded(r.v)
     ELSE DecodeError

\* InvShiftRows then InvSubBytes.
InvShiftSub(s) == Bytes([i \in 1..16 |-> InvSBoxTable[s[InvShiftIndex[i]] + 1]])
\* InvMixColumns: every column is multiplied by the matrix (14 11 13 9).
InvMixColumns(t) ==
  Bytes([i \in 1..16 |->
     Xor4(Mul14Table[t[i] + 1], Mul11Table[t[ColumnIndex[2][i]] + 1],
          Mul13Table[t[ColumnIndex[3][i]] + 1],
          Mul9Table[t[ColumnIndex[4][i]] + 1])])
\* The states of the inverse cipher after undoing rounds Nr, Nr-1, .., r+1
\* (element k is the state in front of round Nr + 1 - k).
RECURSIVE DecryptStates(_, _, _)
DecryptStates(rk, blk, r) ==
  IF r = Rounds(rk) THEN <<Bytes(XorBlock(blk, RoundKey(rk, r)))>>
  ELSE LET done == DecryptStates(rk, blk, r + 1)
           t == Bytes(XorBlock(InvShiftSub(done[Len(done)]), RoundKey(rk, r)))
       IN Append(done, IF r = 0 THEN t ELSE InvMixColumns(t))

\* The inverse cipher of AES on one block.
BlockDecrypt(rk, blk) == DecryptStates(rk, blk, 0)[Rounds(rk) + 1]

\* Chained-block decryption: plaintext block i is D_key(ciphertext block i)
\* XOR ciphertext block i-1 (the IV for the first block).
RECURSIVE CBCPlain(_, _, _)
CBCPlain(rk, prev, data) ==
  IF data = <<>> THEN <<>>
  ELSE LET c == SubSeq(data, 1, BlockSize)
       IN Bytes(XorBlock(BlockDecrypt(rk, c), prev))
            \o CBCPlain(rk, c, SubSeq(data, BlockSize + 1, Len(data)))
cbc_decrypt(key, iv, data) == CBCPlain(KeySchedule(key), iv, data)

\* Strip the padding: the last byte n is the pad count, 1 <= n <= 16, and
\* the last n bytes all equal n.
pkcs7_unpad(data) ==
  LET len == Len(data)
      n == IF len = 0 THEN 0 ELSE data[len]
  IN IF len = 0 \/ len % BlockSize # 0 \/ n < 1 \/ n > BlockSize
        \/ \E k \in (len - n + 1)..len : data[k] # n
     THEN DecodeError
     ELSE Decoded(SubSeq(data, 1, len - n))

\* The fields of a token's envelope: [ok, keys, iv (bytes), value (bytes)].
Envelope(token) ==
  LET outer == b64decode(token)
      env == IF outer.ok THEN json_loads(outer.v) ELSE DecodeError
      good == env.ok /\ env.v.t = "dict"
              /\ HasKey(env.v, U("iv")) /\ HasKey(env.v, U("value"))
              /\ DictGet(env.v, U("iv")).t = "str"
              /\ DictGet(env.v, U("value")).t = "str"
      ivb == IF good THEN b64decode(DictGet(env.v, U("iv")).s) ELSE DecodeError
      ctb == IF good THEN b64decode(DictGet(env.v, U("value")).s)
             ELSE DecodeError
  IN IF good /\ ivb.ok /\ ctb.ok
     THEN [ok |-> TRUE, keys |-> [i \in 1..Len(env.v.d) |-> env.v.d[i].k], iv |-> ivb.v, value |-> ctb.v]
     ELSE [ok |-> FALSE, keys |-> <<>>, iv |-> <<>>, value |-> <<>>]

\* Decrypt(token, key): undo the outer base64, parse the envelope, undo the
\* base64 of iv and value, CBC-decrypt, strip the padding, parse the text.
Decrypt(token, key) ==
  LET env == Envelope(token)
      sized == env.ok /\ Len(env.iv) = BlockSize /\ Len(env.value) > 0
               /\ Len(env.value) % BlockSize = 0
      plain == IF sized THEN pkcs7_unpad(cbc_decrypt(key, env.iv, env.value))
               ELSE DecodeError
  IN IF plain.ok /\ \A k \in 1..Len(plain.v) : plain.v[k] < 128
     THEN json_loads(plain.v)
     ELSE DecodeError

(***************************************************************************)
(* TokenGenerator.__init__                                                 *)
(***************************************************************************)

KeyLength == 32

TokenGenerator_init_mutant_nocheck(secret_key) ==
  IF ~Utf8Encodable(secret_key)
  THEN [state |-> UnicodeEncodeError, key_arg |-> secret_key, secret_key |-> <<>>]
  ELSE [state |-> "ok", key_arg |-> secret_key,
        secret_key |-> Utf8Encode(secret_key)]

\* if len(secret_key) != 32: raise ValueError(...)
\* self.secret_key = secret_key.encode('utf-8')
TokenGenerator_init(secret_key) ==
  IF Len(secret_key) # KeyLength
  THEN [state |-> "ValueError", key_arg |-> secret_key, secret_key |-> <<>>]
  ELSE IF ~Utf8Encodable(secret_key)
  THEN [state |-> UnicodeEncodeError, key_arg |-> secret_key, secret_key |-> <<>>]
  ELSE [state |-> "ok", key_arg |-> secret_key,
        secret_key |-> Utf8Encode(secret_key)]

NoGenerator == [state |-> "none", key_arg |-> <<>>, secret_key |-> <<>>]

(***************************************************************************)
(* main: argument parsing and dispatch                                     *)
(***************************************************************************)

DefaultKey == U("MySuperSecretKeyForParamsToken12")
DefaultWidth == 1920
DefaultHeight == 1080
DefaultVncPort == 5900
DefaultFrontendUrl == U("http://localhost:3000")
ProtocolChoices == {U("rdp"), U("ssh"), U("vnc")}

\* The Namespace before any option is stored.
NoArgs ==
  [key |-> PyNone, protocol |-> PyNone, host |-> PyNone, port |-> PyNone,
   user |-> PyNone, password |-> PyNone, private_key |-> PyNone,
   width |-> PyNone, height |-> PyNone, enable_drive |-> FALSE,
   enable_sftp |-> FALSE, enable_recording |-> FALSE, join |-> PyNone,
   read_only |-> FALSE, output_url |-> FALSE, frontend_url |-> PyNone]

\* A command line: for each option its value (PyNone when the option is not
\* given), for each store_true flag whether it is given, and whether
\* -h/--help is given: "none", "first" (before every other option) or
\* "last" (after every other option).
NoOptions ==
  [key |-> PyNone, protocol |-> PyNone, host |-> PyNone, port |-> PyNone,
   user |-> PyNone, password |-> PyNone, private_key |-> PyNone,
   width |-> PyNone, height |-> PyNone, enable_drive |-> FALSE,
   enable_sftp |-> FALSE, enable_recording |-> FALSE, join |-> PyNone,
   read_only |-> FALSE, output_url |-> FALSE, frontend_url |-> PyNone,
   help |-> "none"]

\* action='store_true' with a default: True when the flag is given, the
\* default otherwise.
store_true(given, default) == IF given THEN TRUE ELSE default

\* type=int on an option value is int(text).  int() drops white space
\* around the text, takes one sign, and reads decimal digits of any script,
\* which a single '_' may separate, up to IntMaxStrDigits digits; anything
\* else is a parse error.  Which characters are decimal digits depends on
\* the Unicode database of the interpreter, ucd.
IntSpaces ==
  {9, 10, 11, 12, 13, 32, 133, 160, 5760, 8232, 8233, 8239, 8287, 12288}
  \cup (8192..8202)
\* The Unicode database of the interpreter: 14.0 (Python 3.11) or 15.1
\* (Python 3.13).
UnicodeVersions == {"14.0", "15.1"}
\* The code point of digit zero of every decimal script of Unicode 14.0.
DecimalZeros14 ==
  {48, 1632, 1776, 1984, 2406, 2534, 2662, 2790, 2918, 3046,
   3174, 3302, 3430, 3558, 3664, 3792, 3872, 4160, 4240, 6112,
   6160, 6470, 6608, 6784, 6800, 6992, 7088, 7232, 7248, 42528,
   43216, 43264, 43472, 43504, 43600, 44016, 65296, 66720, 68912, 69734,
   69872, 69942, 70096, 70384, 70736, 70864, 71248, 71360, 71472, 71904,
   72016, 72784, 73040, 73120, 92768, 92864, 93008, 120782, 120792, 120802,
   120812, 120822, 123200, 123632, 125264, 130032}
\* Unicode 15 added the Kawi and Nag Mundari digits.
DecimalZeros(ucd) ==
  IF ucd = "15.1" THEN DecimalZeros14 \cup {73552, 124144} ELSE DecimalZeros14
DecimalDigit(c, ucd) == \E z \in DecimalZeros(ucd) : c >= z /\ c <= z + 9
RECURSIVE IntLStrip(_), IntRStrip(_), IntDigitsValue(_, _), Pow10(_)
IntLStrip(s) ==
  IF s # <<>> /\ s[1] \in IntSpaces THEN IntLStrip(Tail(s)) ELSE s
IntRStrip(s) ==
  IF s # <<>> /\ s[Len(s)] \in IntSpaces
  THEN IntRStrip(SubSeq(s, 1, Len(s) - 1)) ELSE s
\* The digits and underscores left once white space and sign are dropped.
IntBody(s) ==
  LET t == IntRStrip(IntLStrip(s))
  IN IF t # <<>> /\ t[1] \in {43, 45} THEN Tail(t) ELSE t
Pow10(n) == IF n = 0 THEN 1 ELSE 10 * Pow10(n - 1)
IntDigitCount(b) == Cardinality({i \in 1..Len(b) : b[i] # 95})
\* The value of the digits of b: that of its two halves put together.
IntDigitsValue(b, ucd) ==
  IF Len(b) = 0 THEN 0
  ELSE IF Len(b) = 1
  THEN (IF b[1] = 95 THEN 0
        ELSE b[1] - (CHOOSE z \in DecimalZeros(ucd) :
                       b[1] >= z /\ b[1] <= z + 9))
  ELSE LET m == Len(b) \div 2
           high == IntDigitsValue(SubSeq(b, 1, m), ucd)
           low == SubSeq(b, m + 1, Len(b))
       IN IF high = 0 THEN IntDigitsValue(low, ucd)
          ELSE high * Pow10(IntDigitCount(low)) + IntDigitsValue(low, ucd)
\* sys.int_info.default_max_str_digits
IntMaxStrDigits == 4300
IsIntText(s, ucd) ==
  LET b == IntBody(s)
  IN /\ b # <<>>
     /\ IntDigitCount(b) <= IntMaxStrDigits
     /\ DecimalDigit(b[1], ucd) /\ DecimalDigit(b[Len(b)], ucd)
     /\ \A i \in 1..Len(b) :
          \/ DecimalDigit(b[i], ucd)
          \/ /\ b[i] = 95
             /\ DecimalDigit(b[i - 1], ucd) /\ DecimalDigit(b[i + 1], ucd)
IntOfText(s, ucd) ==
  LET t == IntRStrip(IntLStrip(s))
      sign == IF t # <<>> /\ t[1] = 45 THEN -1 ELSE 1
  IN sign * IntDigitsValue(IntBody(s), ucd)
IntOption(v, default, ucd) ==
  IF v.t = "none" THEN default ELSE PyInt(IntOfText(v.s, ucd))
StrOption(v, default) == IF v.t = "none" THEN default ELSE v

\* argparse's own usage error: an invalid --protocol choice, a non-integer
\* --port/--width/--height.
OptionError(argv, ucd) ==
  (argv.protocol.t = "str" /\ argv.protocol.s \notin ProtocolChoices)
  \/ \E o \in {argv.port, argv.width, argv.height} :
        o.t = "str" /\ ~IsIntText(o.s, ucd)

\* parser.parse_args(): [ok, help, args].  The options are taken in the
\* order of the command line: -h/--help prints the help message and exits
\* when it is reached, an invalid option value is a usage error when it is
\* reached.
parse_args(argv, ucd) ==
  IF argv.help = "first" \/ (argv.help = "last" /\ ~OptionError(argv, ucd))
  THEN [ok |-> FALSE, help |-> TRUE, args |-> NoArgs]
  ELSE IF OptionError(argv, ucd)
  THEN [ok |-> FALSE, help |-> FALSE, args |-> NoArgs]
  ELSE [ok |-> TRUE, help |-> FALSE, args |->
         [key |-> StrOption(argv.key, PyStr(DefaultKey)),
          protocol |-> argv.protocol,
          host |-> argv.host,
          port |-> IntOption(argv.port, PyNone, ucd),
          user |-> argv.user,
          password |-> argv.password,
          private_key |-> argv.private_key,
          width |-> IntOption(argv.width, PyInt(DefaultWidth), ucd),
          height |-> IntOption(argv.height, PyInt(DefaultHeight), ucd),
          enable_drive |-> PyBool(store_true(argv.enable_drive, TRUE)),
          enable_sftp |-> PyBool(store_true(argv.enable_sftp, TRUE)),
          enable_recording |-> PyBool(store_true(argv.enable_recording, TRUE)),
          join |-> argv.join,
          read_only |-> PyBool(store_true(argv.read_only, FALSE)),
          output_url |-> PyBool(store_true(argv.output_url, FALSE)),
          frontend_url |-> StrOption(argv.frontend_url, PyStr(DefaultFrontendUrl))]]

\* if len(args.key) != 32: parser.error(...)
main_key_ok(args) == PyLen(args.key) = KeyLength

UsageError(msg) == [err |-> TRUE, msg |-> msg, kind |-> "none",
                    args |-> <<>>, config |-> PyNone]
Request(kind, args, config) ==
  [err |-> FALSE, msg |-> "", kind |-> kind, args |-> args, config |-> config]

rdp_fields_ok_mutant_any(args) ==
  Truthy(args.host) \/ Truthy(args.user) \/ Truthy(args.password)

\* all([args.host, args.user, args.password])
rdp_fields_ok(args) ==
  Truthy(args.host) /\ Truthy(args.user) /\ Truthy(args.password)

\* The two checks of the ssh branch: the message of the first that fails,
\* "" when both pass.
ssh_fields_error(args) ==
  IF ~Truthy(args.host) \/ ~Truthy(args.user)
  THEN "SSH requires --host and --user"
  ELSE IF ~Truthy(args.password) /\ ~Truthy(args.private_key)
  THEN "SSH requires either --password or --private-key"
  ELSE ""

\* The if/elif chain of main: the usage error it ends in, or the builder it
\* calls with the arguments it passes and the descriptor the builder hands
\* to encrypt_token.
main_request(args) ==
  IF Truthy(args.join)
  THEN Request("join", [connection_id |-> args.join, read_only |-> args.read_only],
               join_config(args.join, args.read_only))
  ELSE IF args.protocol = PyStr(U("rdp"))
  THEN IF ~rdp_fields_ok(args)
       THEN UsageError("RDP requires --host, --user, and --password")
       ELSE Request("rdp",
              [hostname |-> args.host, username |-> args.user,
               password |-> args.password, width |-> args.width,
               height |-> args.height, enable_drive |-> args.enable_drive,
               enable_recording |-> args.enable_recording],
              rdp_config(args.host, args.user, args.password, args.width,
                         args.height, args.enable_drive, args.enable_recording))
  ELSE IF args.protocol = PyStr(U("ssh"))
  THEN IF ssh_fields_error(args) # ""
       THEN UsageError(ssh_fields_error(args))
       ELSE Request("ssh",
              [hostname |-> args.host, username |-> args.user,
               password |-> args.password, private_key |-> args.private_key,
               enable_sftp |-> args.enable_sftp,
               enable_recording |-> args.enable_recording],
              ssh_config(args.host, args.user, args.password, args.private_key,
                         args.enable_sftp, args.enable_recording))
  ELSE IF args.protocol = PyStr(U("vnc"))
  THEN IF ~Truthy(args.host)
       THEN UsageError("VNC requires --host")
       ELSE LET port == IF Truthy(args.port) THEN args.port
                        ELSE PyInt(DefaultVncPort)
            IN Request("vnc",
                 [hostname |-> args.host, password |-> args.password,
                  port |-> port, enable_recording |-> args.enable_recording],
                 vnc_config(args.host, args.password, port,
                            args.enable_recording))
  ELSE UsageError("Must specify either --protocol or --join")

\* urllib.parse.quote(token): letters, digits and _ . - ~ / are kept, any
\* other character becomes %XX (upper-case hex).
UpperHex == U("0123456789ABCDEF")
QuoteChar(c) ==
  IF \/ (c >= 48 /\ c <= 57) \/ (c >= 65 /\ c <= 90) \/ (c >= 97 /\ c <= 122)
     \/ c \in {95, 46, 45, 126, 47}
  THEN <<c>>
  ELSE <<37, UpperHex[(c \div 16) + 1], UpperHex[(c % 16) + 1]>>
RECURSIVE quote(_)
quote(s) ==
  IF Len(s) = 0 THEN <<>>
  ELSE IF Len(s) = 1 THEN QuoteChar(s[1])
  ELSE LET m == Len(s) \div 2
       IN quote(SubSeq(s, 1, m)) \o quote(SubSeq(s, m + 1, Len(s)))

\* What main prints for a token.
main_output_line(args, token) ==
  IF Truthy(args.output_url)
  THEN args.frontend_url.s \o U("/?token=") \o quote(token)
  ELSE token

\* sys.stdout encodes in UTF-8; its error handler is "strict" or, in the C
\* locale, "surrogateescape", which writes U+DC80..U+DCFF as the bytes
\* 0x80..0xFF.  Any other surrogate makes print raise UnicodeEncodeError.
StdoutErrors == {"strict", "surrogateescape"}
StdoutEscapes(c, errors) ==
  errors = "surrogateescape" /\ c >= 56448 /\ c <= 56575
StdoutEncodable(s, errors) ==
  \A i \in 1..Len(s) : ~IsSurrogate(s[i]) \/ StdoutEscapes(s[i], errors)
RECURSIVE StdoutEncode(_, _)
StdoutEncode(s, errors) ==
  IF Len(s) = 0 THEN <<>>
  ELSE IF Len(s) = 1
  THEN (IF StdoutEscapes(s[1], errors) THEN <<s[1] - 56320>>
        ELSE Utf8Char(s[1]))
  ELSE LET m == Len(s) \div 2
       IN StdoutEncode(SubSeq(s, 1, m), errors)
          \o StdoutEncode(SubSeq(s, m + 1, Len(s)), errors)

\* parser.print_help(): the usage, the description, the options and the
\* epilog (RawDescriptionHelpFormatter keeps the epilog as written, with
\* %(prog)s replaced by the program name).  The usage and the options are
\* wrapped to the width of the terminal, given here for the widths in
\* Columns.
RECURSIVE Lines(_)
Lines(ls) ==
  IF Len(ls) = 0 THEN <<>>
  ELSE IF Len(ls) = 1 THEN U(ls[1]) \o <<10>>
  ELSE LET m == Len(ls) \div 2
       IN Lines(SubSeq(ls, 1, m)) \o Lines(SubSeq(ls, m + 1, Len(ls)))
Columns == {20, 30, 80}
HelpDescription ==
  Lines(<<
    "Generate encrypted tokens for Guacamole connections">>)
HelpEpilog ==
  Lines(<<
    "Examples:",
    "  # Generate RDP token",
    "  generate_token.py --protocol rdp --host 192.168.1.100 --user Administrator --password pass123",
    "",
    "  # Generate SSH token with SFTP",
    "  generate_token.py --protocol ssh --host 192.168.1.101 --user ubuntu --password pass123 --enable-sftp",
    "",
    "  # Generate VNC token",
    "  generate_token.py --protocol vnc --host 192.168.1.102 --password vncpass --port 5901",
    "",
    "  # Generate full URL",
    "  generate_token.py --protocol rdp --host 192.168.1.100 --user Admin --password pass --output-url",
    "",
    "  # Join existing session",
    "  generate_token.py --join CONNECTION_ID --read-only",
    "        ">>)
HelpUsage(columns) ==
  CASE columns = 20 ->
      Lines(<<
        "usage: generate_token.py",
        "       [-h]",
        "       [--key KEY]",
        "       [--protocol {rdp,ssh,vnc}]",
        "       [--host HOST]",
        "       [--port PORT]",
        "       [--user USER]",
        "       [--password PASSWORD]",
        "       [--private-key PRIVATE_KEY]",
        "       [--width WIDTH]",
        "       [--height HEIGHT]",
        "       [--enable-drive]",
        "       [--enable-sftp]",
        "       [--enable-recording]",
        "       [--join JOIN]",
        "       [--read-only]",
        "       [--output-url]",
        "       [--frontend-url FRONTEND_URL]">>)
    [] columns = 30 ->
      Lines(<<
        "usage: generate_token.py",
        "       [-h] [--key KEY]",
        "       [--protocol {rdp,ssh,vnc}]",
        "       [--host HOST]",
        "       [--port PORT]",
        "       [--user USER]",
        "       [--password PASSWORD]",
        "       [--private-key PRIVATE_KEY]",
        "       [--width WIDTH]",
        "       [--height HEIGHT]",
        "       [--enable-drive]",
        "       [--enable-sftp]",
        "       [--enable-recording]",
        "       [--join JOIN]",
        "       [--read-only]",
        "       [--output-url]",
        "       [--frontend-url FRONTEND_URL]">>)
    [] columns = 80 ->
      Lines(<<
        "usage: generate_token.py [-h] [--key KEY] [--protocol {rdp,ssh,vnc}]",
        "                         [--host HOST] [--port PORT] [--user USER]",
        "                         [--password PASSWORD] [--private-key PRIVATE_KEY]",
        "                         [--width WIDTH] [--height HEIGHT] [--enable-drive]",
        "                         [--enable-sftp] [--enable-recording] [--join JOIN]",
        "                         [--read-only] [--output-url]",
        "                         [--frontend-url FRONTEND_URL]">>)
HelpOptions(columns) ==
  CASE columns = 20 ->
      Lines(<<
        "  -h, --help",
        "    show this help",
        "    message and",
        "    exit",
        "  --key KEY",
        "    32-character",
        "    secret key",
        "    (default: MySu",
        "    perSecretKeyFo",
        "    rParamsToken12",
        "    )",
        "  --protocol {rdp,ssh,vnc}",
        "    Connection",
        "    protocol",
        "  --host HOST",
        "    Remote host",
        "    address",
        "  --port PORT",
        "    Remote port",
        "    (VNC only)",
        "  --user USER",
        "    Username",
        "  --password PASSWORD",
        "    Password",
        "  --private-key PRIVATE_KEY",
        "    SSH private",
        "    key (SSH only)",
        "  --width WIDTH",
        "    Screen width",
        "    (default:",
        "    1920)",
        "  --height HEIGHT",
        "    Screen height",
        "    (default:",
        "    1080)",
        "  --enable-drive",
        "    Enable file",
        "    transfer drive",
        "    (RDP, default:",
        "    enabled)",
        "  --enable-sftp",
        "    Enable SFTP",
        "    (SSH, default:",
        "    enabled)",
        "  --enable-recording",
        "    Enable session",
        "    recording",
        "    (default:",
        "    enabled)",
        "  --join JOIN",
        "    Join existing",
        "    session by",
        "    connection ID",
        "  --read-only",
        "    Join session",
        "    in read-only",
        "    mode",
        "  --output-url",
        "    Output full",
        "    connection URL",
        "    instead of",
        "    just token",
        "  --frontend-url FRONTEND_URL",
        "    Frontend URL",
        "    (default: http",
        "    ://localhost:3",
        "    000)">>)
    [] columns = 30 ->
      Lines(<<
        "  -h, --help",
        "        show this help",
        "        message and exit",
        "  --key KEY",
        "        32-character secret",
        "        key (default: MySupe",
        "        rSecretKeyForParamsT",
        "        oken12)",
        "  --protocol {rdp,ssh,vnc}",
        "        Connection protocol",
        "  --host HOST",
        "        Remote host address",
        "  --port PORT",
        "        Remote port (VNC",
        "        only)",
        "  --user USER",
        "        Username",
        "  --password PASSWORD",
        "        Password",
        "  --private-key PRIVATE_KEY",
        "        SSH private key (SSH",
        "        only)",
        "  --width WIDTH",
        "        Screen width",
        "        (default: 1920)",
        "  --height HEIGHT",
        "        Screen height",
        "        (default: 1080)",
        "  --enable-drive",
        "        Enable file transfer",
        "        drive (RDP, default:",
        "        enabled)",
        "  --enable-sftp",
        "        Enable SFTP (SSH,",
        "        default: enabled)",
        "  --enable-recording",
        "        Enable session",
        "        recording (default:",
        "        enabled)",
        "  --join JOIN",
        "        Join existing",
        "        session by",
        "        connection ID",
        "  --read-only",
        "        Join session in",
        "        read-only mode",
        "  --output-url",
        "        Output full",
        "        connection URL",
        "        instead of just",
        "        token",
        "  --frontend-url FRONTEND_URL",
        "        Frontend URL",
        "        (default: http://loc",
        "        alhost:3000)">>)
    [] columns = 80 ->
      Lines(<<
        "  -h, --help            show this help message and exit",
        "  --key KEY             32-character secret key (default:",
        "                        MySuperSecretKeyForParamsToken12)",
        "  --protocol {rdp,ssh,vnc}",
        "                        Connection protocol",
        "  --host HOST           Remote host address",
        "  --port PORT           Remote port (VNC only)",
        "  --user USER           Username",
        "  --password PASSWORD   Password",
        "  --private-key PRIVATE_KEY",
        "                        SSH private key (SSH only)",
        "  --width WIDTH         Screen width (default: 1920)",
        "  --height HEIGHT       Screen height (default: 1080)",
        "  --enable-drive        Enable file transfer drive (RDP, default: enabled)",
        "  --enable-sftp         Enable SFTP (SSH, default: enabled)",
        "  --enable-recording    Enable session recording (default: enabled)",
        "  --join JOIN           Join existing session by connection ID",
        "  --read-only           Join session in read-only mode",
        "  --output-url          Output full connection URL instead of just token",
        "  --frontend-url FRONTEND_URL",
        "                        Frontend URL (default: http://localhost:3000)">>)
HelpText(columns) ==
  Bytes(HelpUsage(columns) \o <<10>> \o HelpDescription \o <<10>>
        \o U("options:") \o <<10>> \o HelpOptions(columns) \o <<10>>
        \o HelpEpilog)
\* The help text of each width, computed once.
HelpTable == <<HelpText(20), HelpText(30), HelpText(80)>>
HelpMessage(columns) ==
  HelpTable[CASE columns = 20 -> 1 [] columns = 30 -> 2 [] columns = 80 -> 3]

(***************************************************************************)
(* Bounds and inputs                                                       *)
(***************************************************************************)

\* Concurrent calls on one generator.
MaxCalls == 2
\* Distinct values os.urandom(16) may return.
NumIVs == 2
\* Longest connection identifier tried (every length 0..MaxIdLen is).
MaxIdLen == 16

\* The k-th value os.urandom(16) may return.
IV(k) == [i \in 1..BlockSize |-> (k * 37 + i * 11) % 256]
IVs == {IV(k) : k \in 0..(NumIVs - 1)}

\* Keys offered to the constructor: 16, 31, 32 and 33 ASCII characters, and
\* 32 characters of which the last is e-acute (33 bytes in UTF-8), the
\* euro sign (34 bytes) or a lone surrogate (not encodable).
KeyBase == U("MySuperSecretKeyForParamsToken123")
Keys ==
  {SubSeq(KeyBase, 1, 16), SubSeq(KeyBase, 1, 31), DefaultKey, KeyBase,
   SubSeq(KeyBase, 1, 31) \o <<233>>, SubSeq(KeyBase, 1, 31) \o <<8364>>,
   SubSeq(KeyBase, 1, 31) \o <<56575>>}

IdBase == U("abc-123-session-0042-xyz")
ConnectionIds == {SubSeq(IdBase, 1, n) : n \in 0..MaxIdLen}

Host == PyStr(U("192.168.1.100"))
User == PyStr(U("Administrator"))
Password == PyStr(U("pass123"))
\* A password with a quote, a backslash, a backspace, a form feed, a
\* non-ASCII character and a character above U+FFFF.
OddPassword == PyStr(U("p") \o <<34, 92, 8, 12, 233, 128512>> \o U("w"))
\* Key material with a line break.
PrivateKey == PyStr(U("-----BEGIN KEY-----") \o <<10>> \o U("MIIB") \o <<10>>)
Empty == PyStr(<<>>)
Bools == {PyBool(TRUE), PyBool(FALSE)}

\* Arguments of direct calls of the builders by a single caller.
RdpInputs ==
  [hostname : {Host}, username : {User}, password : {Password, OddPassword},
   width : {PyInt(DefaultWidth)}, height : {PyInt(DefaultHeight)},
   enable_drive : Bools, enable_recording : Bools]
SshInputs ==
  [hostname : {Host}, username : {User},
   password : {PyNone, Empty, Password}, private_key : {PyNone, Empty, PrivateKey},
   enable_sftp : Bools, enable_recording : Bools]
VncInputs ==
  [hostname : {Host}, password : {PyNone, Empty, Password},
   port : {PyInt(DefaultVncPort), PyInt(5901)}, enable_recording : Bools]
JoinInputs ==
  [connection_id : {PyStr(i) : i \in ConnectionIds}, read_only : Bools]

\* Arguments of the calls that run concurrently: an RDP request with the
\* signature's defaults and a join request.
RdpDefaults ==
  [hostname : {Host}, username : {User}, password : {Password},
   width : {PyInt(DefaultWidth)}, height : {PyInt(DefaultHeight)},
   enable_drive : {PyBool(TRUE)}, enable_recording : {PyBool(TRUE)}]
JoinDefaults ==
  [connection_id : {PyStr(SubSeq(IdBase, 1, 7))}, read_only : {PyBool(FALSE)}]

\* Command lines.
OptionValues(v) == {PyNone, Empty, v}
FieldCmdLines ==
  {[NoOptions EXCEPT !.protocol = pr, !.join = j, !.host = h, !.user = u,
                     !.password = pw, !.private_key = pk] :
     pr \in {PyNone, PyStr(U("rdp")), PyStr(U("ssh")), PyStr(U("vnc"))},
     j \in OptionValues(PyStr(SubSeq(IdBase, 1, 7))),
     h \in OptionValues(Host), u \in OptionValues(User),
     pw \in OptionValues(Password), pk \in {PyNone, PrivateKey}}
Complete(pr) ==
  [NoOptions EXCEPT !.protocol = PyStr(U(pr)), !.host = Host, !.user = User,
                    !.password = Password]
CompleteCmdLines ==
  {Complete("rdp"), Complete("ssh"), Complete("vnc"),
   [NoOptions EXCEPT !.join = PyStr(SubSeq(IdBase, 1, 7))]}
FlagCmdLines ==
  {[a EXCEPT !.enable_drive = d, !.enable_sftp = f, !.enable_recording = r,
             !.output_url = o] :
     a \in CompleteCmdLines, d \in BOOLEAN, f \in BOOLEAN, r \in BOOLEAN,
     o \in BOOLEAN}
\* Every key with every choice of the fields (the default key is the one
\* of FieldCmdLines).
KeyCmdLines ==
  {[a EXCEPT !.key = PyStr(k)] : a \in CompleteCmdLines, k \in Keys}
  \cup {[a EXCEPT !.key = PyStr(k)] :
          a \in FieldCmdLines, k \in Keys \ {DefaultKey}}
\* Texts of --port: plain, signed, with white space, with an underscore,
\* in Arabic-Indic digits, in Kawi digits (of Unicode 15), and texts int()
\* refuses.
PortTexts ==
  {U("5901"), U("0"), U("x"), U("+5901"), U("-1"), U(" 5901"), U("5901 "),
   U("5_901"), <<1637, 1641, 1632, 1633>>, <<160>> \o U("5901") \o <<9, 10>>,
   U("5__901"), U("_5901"), U("5901_"), U("+ 5901"), U("+-5901"), U("+"),
   U("0x10"), U("5.0"), <<28>> \o U("5901"), <<73557, 73561>>}
\* Texts of --frontend-url: plain, with a non-ASCII character, with a lone
\* surrogate that surrogateescape can write, with one it cannot.
FrontendUrls ==
  {U("https://bastion.example"), U("https://") \o <<233>> \o U(".example"),
   U("https://h") \o <<56575>>, U("https://h") \o <<55357>>}
\* A text of n digits, all zero but the last.
LongDigits(n) == Bytes([i \in 1..n |-> IF i = n THEN 55 ELSE 48])
OtherCmdLines ==
  {[Complete("vnc") EXCEPT !.port = PyStr(p)] : p \in PortTexts}
  \cup {[Complete("rdp") EXCEPT !.protocol = PyStr(U("telnet"))],
        [Complete("rdp") EXCEPT !.width = PyStr(U("800")), !.height = PyStr(U("600"))],
        [Complete("rdp") EXCEPT !.width = PyStr(U("wide"))],
        [Complete("rdp") EXCEPT !.width = PyStr(U("+800")), !.height = PyStr(U(" 6_00 "))],
        [Complete("rdp") EXCEPT !.width = PyStr(LongDigits(IntMaxStrDigits))],
        [Complete("rdp") EXCEPT !.height = PyStr(LongDigits(IntMaxStrDigits + 1))]}
  \cup {[Complete("rdp") EXCEPT !.output_url = TRUE, !.frontend_url = PyStr(f)] :
          f \in FrontendUrls}
  \cup {[NoOptions EXCEPT !.join = PyStr(i), !.read_only = ro] :
          i \in ConnectionIds, ro \in BOOLEAN}
PlainCmdLines ==
  FieldCmdLines \cup FlagCmdLines \cup KeyCmdLines \cup OtherCmdLines
\* The same command lines with -h in front or at the end.
HelpCmdLines ==
  {[a EXCEPT !.help = h] : a \in PlainCmdLines, h \in {"first", "last"}}
CmdLines == PlainCmdLines \cup HelpCmdLines

(***************************************************************************)
(* State                                                                   *)
(***************************************************************************)

VARIABLES
  world,      \* "cli": one run of main; "api": one caller of the class;
              \* "threads": MaxCalls callers sharing one generator
  generator,  \* the TokenGenerator: [state, key_arg, secret_key]
  calls,      \* per call: the builder called, its arguments, and the local
              \* variables of encrypt_token
  cli,        \* the run of main: [pc, argv, ucd, args, exit], ucd the
              \* Unicode database of the interpreter
  stdout      \* the bytes written to standard output

vars == <<world, generator, calls, cli, stdout>>

CallIds == 1..MaxCalls
Slots == IF world = "threads" THEN CallIds ELSE {1}

IdleCall ==
  [pc |-> "idle", kind |-> "none", args |-> <<>>, arg |-> PyNone,
   connection_config |-> PyNone, plaintext |-> <<>>, urandom |-> <<>>,
   iv |-> <<>>, cipher_key |-> <<>>, padded_data |-> <<>>,
   ciphertext |-> <<>>, token |-> <<>>]

CliOff ==
  [pc |-> "off", argv |-> NoOptions, ucd |-> "14.0", args |-> NoArgs,
   exit |-> -1]

Init ==
  /\ world \in {"cli", "api", "threads"}
  /\ generator = NoGenerator
  /\ calls = [c \in CallIds |-> IdleCall]
  /\ cli \in IF world = "cli"
            THEN {[CliOff EXCEPT !.pc = "start", !.argv = a, !.ucd = u] :
                    a \in CmdLines, u \in UnicodeVersions}
            ELSE {CliOff}
  /\ stdout = <<>>

SetLocal_mutant_shared(cs, c, name, value) ==
  [d \in DOMAIN cs |->
     IF d = c \/ cs[d].pc \notin {"idle", "returned", "raised"}
     THEN [cs[d] EXCEPT ![name] = value] ELSE cs[d]]

\* Assignment to a local variable of call c's frame.
SetLocal(cs, c, name, value) == [cs EXCEPT ![c][name] = value]

\* Call c's control moves on.
Goto(cs, c, pc) == [cs EXCEPT ![c].pc = pc]

\* Entry into encrypt_token(config) from a builder.
StartCall(c, req) ==
  calls' = [calls EXCEPT ![c] =
              [IdleCall EXCEPT !.pc = "encrypt_token", !.kind = req.kind,
                               !.args = req.args, !.arg = req.config,
                               !.connection_config = req.config]]

(***************************************************************************)
(* Direct use of the class                                                 *)
(***************************************************************************)

Library == world \in {"api", "threads"}
Rich == world = "api"

\* generator = TokenGenerator(key)
Construct(key) ==
  /\ Library
  /\ generator.state = "none"
  /\ generator' = TokenGenerator_init(key)
  /\ UNCHANGED <<world, calls, cli, stdout>>

CanCall(c) ==
  Library /\ c \in Slots /\ generator.state = "ok" /\ calls[c].pc = "idle"

generate_rdp_token(c) ==
  /\ CanCall(c)
  /\ \E a \in (IF Rich THEN RdpInputs ELSE RdpDefaults) :
       StartCall(c, Request("rdp", a,
         rdp_config(a.hostname, a.username, a.password, a.width, a.height,
                    a.enable_drive, a.enable_recording)))
  /\ UNCHANGED <<world, generator, cli, stdout>>

generate_ssh_token(c) ==
  /\ CanCall(c)
  /\ Rich
  /\ \E a \in SshInputs :
       StartCall(c, Request("ssh", a,
         ssh_config(a.hostname, a.username, a.password, a.private_key,
                    a.enable_sftp, a.enable_recording)))
  /\ UNCHANGED <<world, generator, cli, stdout>>

generate_vnc_token(c) ==
  /\ CanCall(c)
  /\ Rich
  /\ \E a \in VncInputs :
       StartCall(c, Request("vnc", a,
         vnc_config(a.hostname, a.password, a.port, a.enable_recording)))
  /\ UNCHANGED <<world, generator, cli, stdout>>

generate_join_token(c) ==
  /\ CanCall(c)
  /\ \E a \in (IF Rich THEN JoinInputs ELSE JoinDefaults) :
       StartCall(c, Request("join", a,
         join_config(a.connection_id, a.read_only)))
  /\ UNCHANGED <<world, generator, cli, stdout>>

(***************************************************************************)
(* encrypt_token, one step per statement group                             *)
(***************************************************************************)

\* plaintext = json.dumps(connection_config)
EncDumps(c) ==
  /\ calls[c].pc = "encrypt_token"
  /\ calls' = Goto(SetLocal(calls, c, "plaintext",
                 enc_plaintext(calls[c].connection_config)), c, "dumped")
  /\ UNCHANGED <<world, generator, cli, stdout>>

\* iv = os.urandom(16)
EncUrandom(c) ==
  /\ calls[c].pc = "dumped"
  /\ \E r \in IVs :
       calls' = Goto(SetLocal([calls EXCEPT ![c].urandom = r], c, "iv", r),
                     c, "iv")
  /\ UNCHANGED <<world, generator, cli, stdout>>

\* cipher = Cipher(algorithms.AES(self.secret_key), modes.CBC(iv), ...)
\* encryptor = cipher.encryptor()
EncCipher(c) ==
  /\ calls[c].pc = "iv"
  /\ calls' = IF AESKeySizeOk(generator.secret_key)
              THEN Goto(SetLocal(calls, c, "cipher_key", generator.secret_key),
                        c, "cipher")
              ELSE Goto(calls, c, "raised")
  /\ UNCHANGED <<world, generator, cli, stdout>>

\* padded_data = ...; ciphertext = encryptor.update(padded_data) + encryptor.finalize()
EncPadEncrypt(c) ==
  /\ calls[c].pc = "cipher"
  /\ LET padded == enc_padded_data(calls[c].plaintext)
     IN calls' = Goto(SetLocal(SetLocal(calls, c, "padded_data", padded),
                    c, "ciphertext",
                    enc_ciphertext(calls[c].cipher_key, calls[c].iv, padded)),
                    c, "encrypted")
  /\ UNCHANGED <<world, generator, cli, stdout>>

\* token_data = {...}; token_json = json.dumps(token_data); token = ...; return token
EncReturn(c) ==
  /\ calls[c].pc = "encrypted"
  /\ calls' = Goto(SetLocal(calls, c, "token",
                 enc_token(enc_token_data(calls[c].iv, calls[c].ciphertext))),
                 c, "returned")
  /\ UNCHANGED <<world, generator, cli, stdout>>

(***************************************************************************)
(* main                                                                    *)
(***************************************************************************)

\* args = parser.parse_args(): the Namespace, or the help message on
\* standard output and exit 0, or a usage error and exit 2.
main_parse_args ==
  /\ cli.pc = "start"
  /\ LET r == parse_args(cli.argv, cli.ucd)
     IN IF r.help
        THEN /\ cli' = [cli EXCEPT !.pc = "help", !.exit = 0]
             /\ \E columns \in Columns :
                  stdout' = stdout \o HelpMessage(columns)
        ELSE /\ cli' = IF r.ok
                       THEN [cli EXCEPT !.pc = "parsed", !.args = r.args]
                       ELSE [cli EXCEPT !.pc = "usage_error", !.exit = 2]
             /\ UNCHANGED stdout
  /\ UNCHANGED <<world, generator, calls>>

\* if len(args.key) != 32: parser.error(...)
main_validate_key ==
  /\ cli.pc = "parsed"
  /\ cli' = IF main_key_ok(cli.args) THEN [cli EXCEPT !.pc = "key_ok"]
            ELSE [cli EXCEPT !.pc = "usage_error", !.exit = 2]
  /\ UNCHANGED <<world, generator, calls, stdout>>

\* generator = TokenGenerator(args.key)
main_create_generator ==
  /\ cli.pc = "key_ok"
  /\ generator' = TokenGenerator_init(cli.args.key.s)
  /\ cli' = IF generator'.state = "ok" THEN [cli EXCEPT !.pc = "dispatch"]
            ELSE [cli EXCEPT !.pc = "crashed", !.exit = 1]
  /\ UNCHANGED <<world, calls, stdout>>

\* The if/elif chain: a usage error, or the call of a builder.
main_dispatch ==
  /\ cli.pc = "dispatch"
  /\ LET req == main_request(cli.args)
     IN IF req.err
        THEN /\ cli' = [cli EXCEPT !.pc = "usage_error", !.exit = 2]
             /\ UNCHANGED calls
        ELSE /\ cli' = [cli EXCEPT !.pc = "in_call"]
             /\ StartCall(1, req)
  /\ UNCHANGED <<world, generator, stdout>>

\* print(url) or print(token): the line is written, or print raises
\* UnicodeEncodeError (traceback, exit 1) and nothing is written.
main_output ==
  /\ cli.pc = "in_call"
  /\ calls[1].pc = "returned"
  /\ \E errors \in StdoutErrors :
       LET line == main_output_line(cli.args, calls[1].token)
       IN IF StdoutEncodable(line, errors)
          THEN /\ stdout' = stdout \o StdoutEncode(line, errors) \o <<10>>
               /\ cli' = [cli EXCEPT !.pc = "done", !.exit = 0]
          ELSE /\ stdout' = stdout
               /\ cli' = [cli EXCEPT !.pc = "crashed", !.exit = 1]
  /\ UNCHANGED <<world, generator, calls>>

\* An exception raised in encrypt_token is not caught: traceback, exit 1.
main_uncaught ==
  /\ cli.pc = "in_call"
  /\ calls[1].pc = "raised"
  /\ cli' = [cli EXCEPT !.pc = "crashed", !.exit = 1]
  /\ UNCHANGED <<world, generator, calls, stdout>>

Next ==
  \/ \E k \in Keys : Construct(k)
  \/ \E c \in CallIds : generate_rdp_token(c)
  \/ \E c \in CallIds : generate_ssh_token(c)
  \/ \E c \in CallIds : generate_vnc_token(c)
  \/ \E c \in CallIds : generate_join_token(c)
  \/ \E c \in CallIds : EncDumps(c)
  \/ \E c \in CallIds : EncUrandom(c)
  \/ \E c \in CallIds : EncCipher(c)
  \/ \E c \in CallIds : EncPadEncrypt(c)
  \/ \E c \in CallIds : EncReturn(c)
  \/ main_parse_args
  \/ main_validate_key
  \/ main_create_generator
  \/ main_dispatch
  \/ main_output
  \/ main_uncaught

Spec == Init /\ [][Next]_vars

(***************************************************************************)
(* Properties                                                              *)
(***************************************************************************)

Returned(c) == calls[c].pc = "returned"
Entered(c) == calls[c].pc # "idle"
CliBeforeCall == {"start", "parsed", "key_ok", "dispatch", "usage_error"}
Present(v) == v.t = "str" /\ v.s # <<>>

\* C1: for every descriptor a builder produced and every key the generator
\* accepted, decrypting the token encrypt_token returned (outer base64,
\* envelope, base64 of iv and value, CBC decryption with the key and the
\* iv, padding removal, parsing) yields a descriptor equal to the one
\* passed in.
C1_RoundTrip ==
  \A c \in CallIds :
    Returned(c) =>
      Decrypt(calls[c].token, generator.secret_key) = Decoded(calls[c].arg)

\* A token was returned for an RDP descriptor whose password needs JSON
\* escapes, and it decrypts to that descriptor.
C1_Witness ==
  \E c \in CallIds :
    /\ Returned(c)
    /\ calls[c].kind = "rdp"
    /\ DictGet(Settings(calls[c].arg), U("password")) = OddPassword
    /\ Decrypt(calls[c].token, generator.secret_key) = Decoded(calls[c].arg)

\* C2: every token returned is the base64 encoding of a JSON mapping with
\* exactly the fields 'iv' and 'value', in the text layout json.dumps gives;
\* 'iv' is the base64 of the 16 bytes os.urandom returned to that call and
\* 'value' the base64 of that call's ciphertext; nothing else is present and
\* no other encoding layer is applied.
C2_TokenFormat ==
  \A c \in CallIds :
    Returned(c) =>
      LET env == Envelope(calls[c].token) IN
      /\ env.ok
      /\ env.keys = <<U("iv"), U("value")>>
      /\ Len(env.iv) = 16
      /\ env.iv = calls[c].urandom
      /\ env.value = calls[c].ciphertext
      /\ b64decode(calls[c].token) =
           Decoded(U("{\"iv\": \"") \o b64encode(calls[c].urandom)
                   \o U("\", \"value\": \"") \o b64encode(calls[c].ciphertext)
                   \o U("\"}"))

\* A token was returned and its envelope holds the call's IV and ciphertext.
C2_Witness ==
  \E c \in CallIds :
    /\ Returned(c)
    /\ Envelope(calls[c].token).ok
    /\ Envelope(calls[c].token).iv = calls[c].urandom
    /\ Len(calls[c].ciphertext) > 16

\* C3 as stated: a key is accepted only if it is exactly 16 bytes long, so
\* a generator exists, and encrypt_token runs, only with a 16-byte key.
C3_Original ==
  /\ generator.state = "ok" => Len(generator.secret_key) = 16
  /\ \A c \in CallIds : Entered(c) => Len(generator.secret_key) = 16

\* C3 amended: a key whose length in characters is not exactly 32 is
\* rejected: the constructor raises ValueError and no call is ever made on
\* that generator; a run of main with such a key never constructs the
\* generator, builds no descriptor and prints no token: it ends in a usage
\* error (exit 2), or, when -h/--help is on the command line and argparse
\* reaches it before an invalid option, with the help message and exit 0,
\* the key unread.  A generator exists, and encrypt_token is entered, only
\* with a key of 32 characters that UTF-8 can encode (a key of 32
\* characters with a lone surrogate makes the constructor raise
\* UnicodeEncodeError).
C3_KeyLength ==
  /\ generator.state = "ok" =>
       Len(generator.key_arg) = 32 /\ Utf8Encodable(generator.key_arg)
  /\ generator.state = "ValueError" =>
       Len(generator.key_arg) # 32 /\ \A c \in CallIds : ~Entered(c)
  /\ generator.state = UnicodeEncodeError =>
       /\ Len(generator.key_arg) = 32 /\ ~Utf8Encodable(generator.key_arg)
       /\ \A c \in CallIds : ~Entered(c)
  /\ \A c \in CallIds :
       Entered(c) => generator.state = "ok" /\ Len(generator.key_arg) = 32
  /\ (world = "cli" /\ cli.argv.key.t = "str" /\ Len(cli.argv.key.s) # 32) =>
       /\ cli.pc \in {"start", "parsed", "usage_error", "help"}
       /\ cli.pc = "usage_error" => cli.exit = 2
       /\ cli.pc = "parsed" => ~main_key_ok(cli.args)
       /\ cli.pc = "help" <=> (cli.exit = 0 /\ \E w \in Columns : stdout = HelpMessage(w))
       /\ cli.pc = "help" => parse_args(cli.argv, cli.ucd).help
       /\ cli.pc # "help" => stdout = <<>>
       /\ (cli.pc # "start" /\ ~parse_args(cli.argv, cli.ucd).help) =>
            cli.pc \in {"parsed", "usage_error"}
       /\ generator.state = "none"
       /\ \A c \in CallIds : ~Entered(c)

\* The constructor rejected a key of 16 characters (16 bytes).
C3_Witness ==
  /\ generator.state = "ValueError"
  /\ Len(generator.key_arg) = 16
  /\ Len(Utf8Encode(generator.key_arg)) = 16

\* C4: with n the byte length of the serialized descriptor, the padded
\* plaintext and the ciphertext have length 16 * (n div 16 + 1): a non-zero
\* multiple of 16 greater than n; the pad count is between 1 and 16, every
\* pad byte equals it, a full block is added when n is a multiple of 16,
\* and the n original bytes are recovered by removing the padding.
C4_Padding ==
  \A c \in CallIds :
    calls[c].pc \in {"encrypted", "returned"} =>
      LET data == Utf8Encode(calls[c].plaintext)
          n == Len(data)
          padded == calls[c].padded_data
          count == Len(padded) - n
      IN /\ Len(padded) = 16 * ((n \div 16) + 1)
         /\ Len(calls[c].ciphertext) = Len(padded)
         /\ Len(padded) > n /\ Len(padded) % 16 = 0
         /\ count >= 1 /\ count <= 16
         /\ \A i \in (n + 1)..Len(padded) : padded[i] = count
         /\ SubSeq(padded, 1, n) = data
         /\ (n % 16 = 0 => count = 16)
         /\ pkcs7_unpad(padded) = Decoded(data)

\* A descriptor whose serialized length is a multiple of 16 was encrypted.
C4_Witness ==
  \E c \in CallIds :
    /\ Returned(c)
    /\ Len(calls[c].plaintext) % 16 = 0
    /\ Len(calls[c].padded_data) = Len(calls[c].plaintext) + 16

SameRequest(c, d) ==
  c # d /\ Returned(c) /\ Returned(d) /\ calls[c].arg = calls[d].arg

\* C5 as stated: any two calls of encrypt_token with the same descriptor on
\* one generator return two different tokens.
C5_Original ==
  \A c, d \in CallIds : SameRequest(c, d) => calls[c].token # calls[d].token

\* C5 amended: two calls with the same descriptor on one generator return
\* different tokens exactly when the IVs os.urandom gave them differ (the
\* code does not prevent os.urandom from repeating a value, and then the
\* tokens are equal); each token carries the IV drawn by its own call and
\* decrypts to the descriptor.
C5_FreshIV ==
  \A c, d \in CallIds :
    SameRequest(c, d) =>
      /\ (calls[c].token # calls[d].token) <=> (calls[c].urandom # calls[d].urandom)
      /\ Envelope(calls[c].token).iv = calls[c].urandom
      /\ Decrypt(calls[c].token, generator.secret_key) = Decoded(calls[c].arg)

\* Two calls with the same descriptor drew different IVs and returned
\* different tokens.
C5_Witness ==
  \E c, d \in CallIds :
    /\ SameRequest(c, d)
    /\ calls[c].urandom # calls[d].urandom
    /\ calls[c].token # calls[d].token

NoCredentials(a) == ~Truthy(a.password) /\ ~Truthy(a.private_key)
\* C6: generate_ssh_token rejects a request with neither a password nor a
\* private key (both absent or empty), so encrypt_token is never entered
\* for one.
C6_Original ==
  \A c \in CallIds :
    (calls[c].kind = "ssh" /\ NoCredentials(calls[c].args)) => ~Entered(c)

\* The mode main selects and whether a field it requires is absent or
\* empty: join when an identifier is given, else the protocol.
MissingRequired(argv) ==
  IF Present(argv.join) THEN FALSE
  ELSE IF argv.protocol = PyStr(U("rdp"))
  THEN ~(Present(argv.host) /\ Present(argv.user) /\ Present(argv.password))
  ELSE IF argv.protocol = PyStr(U("ssh"))
  THEN ~(Present(argv.host) /\ Present(argv.user))
  ELSE IF argv.protocol = PyStr(U("vnc"))
  THEN ~Present(argv.host)
  ELSE TRUE

\* C7 as stated: in a run of main where a field required by the selected
\* mode is absent or empty (or no mode is selected), no descriptor is
\* built, encrypt_token is never called and nothing is printed; the run
\* stays before the call of a builder and ends in the usage error, whose
\* exit status is non-zero.
C7_Original ==
  (world = "cli" /\ MissingRequired(cli.argv)) =>
    /\ cli.pc \in CliBeforeCall
    /\ \A c \in CallIds : ~Entered(c)
    /\ stdout = <<>>
    /\ cli.pc = "usage_error" => cli.exit # 0
    /\ cli.pc = "dispatch" => main_request(cli.args).err

\* The key of a run of main: 32 characters that UTF-8 cannot encode.
KeyUnencodable(argv) ==
  argv.key.t = "str" /\ Len(argv.key.s) = 32 /\ ~Utf8Encodable(argv.key.s)

\* C7 amended: in a run of main where a field required by the selected
\* mode is absent or empty (or no mode is selected), no descriptor is
\* built, encrypt_token is never called and no token or URL is printed: the
\* required-field check precedes any cipher work.  The run ends in a usage
\* error with exit 2, except that it ends with the help message and exit 0
\* when -h/--help is on the command line and argparse reaches it before an
\* invalid option, and with a traceback and exit 1 when the key has 32
\* characters that UTF-8 cannot encode, because main constructs the
\* generator before it checks the fields.
C7_RequiredFields ==
  (world = "cli" /\ MissingRequired(cli.argv)) =>
    /\ \A c \in CallIds : ~Entered(c)
    /\ cli.pc \in CliBeforeCall \cup {"help", "crashed"}
    /\ cli.pc = "usage_error" => cli.exit = 2
    /\ cli.pc = "dispatch" => main_request(cli.args).err
    /\ cli.pc = "help" <=> (cli.exit = 0 /\ \E w \in Columns : stdout = HelpMessage(w))
    /\ cli.pc = "help" => parse_args(cli.argv, cli.ucd).help
    /\ cli.pc # "help" => stdout = <<>>
    /\ cli.pc = "crashed" <=> cli.exit = 1
    /\ cli.pc = "crashed" =>
         KeyUnencodable(cli.argv) /\ generator.state = UnicodeEncodeError
    /\ (cli.pc # "start" /\ ~parse_args(cli.argv, cli.ucd).help) =>
         cli.pc \in {"parsed", "key_ok", "dispatch", "usage_error", "crashed"}
    /\ (cli.pc \notin {"start", "parsed", "key_ok"}
        /\ ~parse_args(cli.argv, cli.ucd).help /\ ~KeyUnencodable(cli.argv)) =>
         cli.pc \in {"dispatch", "usage_error"}

\* main reached its dispatch with an RDP request whose host is empty and
\* ended in the usage error.
C7_Witness ==
  /\ world = "cli"
  /\ cli.argv.help = "none"
  /\ cli.argv.protocol = PyStr(U("rdp"))
  /\ cli.argv.host = Empty
  /\ Present(cli.argv.user) /\ Present(cli.argv.password)
  /\ ~Present(cli.argv.join)
  /\ generator.state = "ok"
  /\ cli.pc = "usage_error"
  /\ cli.exit = 2

\* C8: under every interleaving of calls on one generator, secret_key is
\* the encoding of the key the generator was built with, no call changes
\* the descriptor it was given, each call encrypts with that key and the IV
\* it drew itself, and the token it returns is the one the same call gives
\* when run alone on its descriptor with its IV.
C8_Isolation ==
  /\ generator.state = "ok" =>
       generator.secret_key = Utf8Encode(generator.key_arg)
  /\ \A c \in CallIds :
       /\ Entered(c) => calls[c].connection_config = calls[c].arg
       /\ calls[c].pc \in {"iv", "cipher", "encrypted", "returned"} =>
            calls[c].iv = calls[c].urandom
       /\ calls[c].pc \in {"cipher", "encrypted", "returned"} =>
            calls[c].cipher_key = Utf8Encode(generator.key_arg)
       /\ Returned(c) =>
            calls[c].token =
              encrypt_token_result(Utf8Encode(generator.key_arg),
                                   calls[c].arg, calls[c].urandom)

\* Two calls with different descriptors and different IVs are inside
\* encrypt_token at the same time.
C8_Witness ==
  /\ world = "threads"
  /\ calls[1].pc = "encrypted" /\ calls[2].pc = "cipher"
  /\ calls[1].arg # calls[2].arg
  /\ calls[1].urandom # calls[2].urandom

\* C9: the settings of an SSH descriptor hold at most one of 'password'
\* and 'private-key': 'password' (the one given) and no 'private-key'
\* whenever a non-empty password is given, also when a private key is given
\* too; 'private-key' exactly when the password is absent or empty and a
\* non-empty private key is given.
C9_PasswordPreferred ==
  \A c \in CallIds :
    calls[c].kind = "ssh" =>
      LET st == Settings(calls[c].arg)
          a == calls[c].args
      IN /\ ~(HasKey(st, U("password")) /\ HasKey(st, U("private-key")))
         /\ Truthy(a.password) =>
              /\ HasKey(st, U("password"))
              /\ DictGet(st, U("password")) = a.password
              /\ ~HasKey(st, U("private-key"))
         /\ HasKey(st, U("private-key")) <=>
              (~Truthy(a.password) /\ Truthy(a.private_key))
         /\ HasKey(st, U("private-key")) =>
              DictGet(st, U("private-key")) = a.private_key
         /\ HasKey(st, U("password")) => Truthy(a.password)

\* generate_ssh_token was called with both a password and a private key.
C9_Witness ==
  \E c \in CallIds :
    /\ calls[c].kind = "ssh"
    /\ Truthy(calls[c].args.password) /\ Truthy(calls[c].args.private_key)
    /\ HasKey(Settings(calls[c].arg), U("password"))

\* The descriptor main hands to encrypt_token for a command line it accepts.
Accepted(argv, ucd) ==
  /\ parse_args(argv, ucd).ok
  /\ main_key_ok(parse_args(argv, ucd).args)
  /\ ~main_request(parse_args(argv, ucd).args).err
MainSettings(argv, ucd) ==
  Settings(main_request(parse_args(argv, ucd).args).config)
HasAny(st, keys) == \E k \in keys : HasKey(st, k)
DriveFields == {U("enable-drive"), U("drive-path"), U("create-drive-path")}
SftpFields == {U("enable-sftp"), U("sftp-root-directory")}
RecordingFields ==
  {U("recording-path"), U("recording-name"), U("typescript-path"),
   U("typescript-name")}

\* The command lines that differ from argv only in which of the three
\* feature flags are given.
FlagVariants(argv) ==
  {[argv EXCEPT !.enable_drive = d, !.enable_sftp = f, !.enable_recording = r] :
     d \in BOOLEAN, f \in BOOLEAN, r \in BOOLEAN}
NoFlags(argv) ==
  ~argv.enable_drive /\ ~argv.enable_sftp /\ ~argv.enable_recording
FeaturesOf(kind) ==
  CASE kind = "rdp" -> {DriveFields, RecordingFields}
    [] kind = "ssh" -> {SftpFields, RecordingFields}
    [] kind = "vnc" -> {RecordingFields}
    [] OTHER -> {}

\* C10: on the command line drive sharing (RDP), SFTP (SSH) and session
\* recording (RDP, SSH, VNC) are on by default and each can be turned off:
\* whenever main builds a descriptor for a protocol, the feature's fields
\* are there if no flag is given, and for each feature of the protocol some
\* choice of the flags on the same command line is accepted by main and
\* gives a descriptor without that feature's fields.
C10_Toggleable ==
  (world = "cli" /\ Entered(1)) =>
    \A fields \in FeaturesOf(calls[1].kind) :
      /\ NoFlags(cli.argv) => HasAny(Settings(calls[1].arg), fields)
      /\ \E a \in FlagVariants(cli.argv) :
           Accepted(a, cli.ucd) /\ ~HasAny(MainSettings(a, cli.ucd), fields)

=============================================================================
